---- MODULE Spec2Model ----
(***************************************************************************)
(* Model of the trajectory simulator: the GPS device with its error model  *)
(* and sampling strategies, the Person movement, the InspectionTask and    *)
(* the attempt/retry loop of TrajectorySimulator.simulate.                 *)
(*                                                                         *)
(* Units.  Positions are points <<x, y>> of the integer grid (the random   *)
(* draws of the code are restricted to those that land on the grid).       *)
(* Signal strength is kept in hundredths (100 = 1.0), accuracy in          *)
(* thousandths of a position unit (2500 = 2.5), the area threshold as a    *)
(* fraction <<num, den>>.  Distances are compared through their squares.   *)
(***************************************************************************)
EXTENDS Integers, Sequences, FiniteSets, TLC

---------------------------------------------------------------------------
(* Bounds of the model *)

\* total number of ticks of the main loop over one behaviour
MaxTicks == 6

\* number of simulate calls made on the same simulator
MaxCalls == 2

\* largest coordinate of a random displacement (jitter / fix jump / step)
MaxOffset == 2

\* number of direct calls made on a device
MaxOps == 4

---------------------------------------------------------------------------
(* Program constants *)

\* a tenth of the improvement threshold: 0.02
SmallImprovementThreshold == 20 \div 10

\* SIGNAL_IMPROVEMENT_THRESHOLD = 0.2, in hundredths
SIGNAL_IMPROVEMENT_THRESHOLD == 20

\* default of gps.min_accuracy (2.5) and gps.max_accuracy (12.0), thousandths
DefaultMinAccuracy == 2500
DefaultMaxAccuracy == 12000

\* random.uniform(-0.05, 0.05): the draws used, in hundredths
StrengthChanges == {-5, 5}

\* random.uniform(-0.5, 0.5): the draws used, in thousandths
AccuracyVariations == {-500, 500}

\* the draws used inside the main loop of simulate
TickStrengthChanges == {-5, 5}

TickAccuracyVariations == {0}

---------------------------------------------------------------------------
(* Geometry on the grid *)

Abs(n) == IF n < 0 THEN -n ELSE n

Max(a, b) == IF a >= b THEN a ELSE b

Min(a, b) == IF a <= b THEN a ELSE b

\* square of Point.distance
DistSq(p, q) == (p[1] - q[1]) * (p[1] - q[1]) + (p[2] - q[2]) * (p[2] - q[2])

Offsets == {<<dx, dy>> : dx \in (-MaxOffset)..MaxOffset, dy \in (-MaxOffset)..MaxOffset}

Add(p, d) == <<p[1] + d[1], p[2] + d[2]>>

\* term i of the shoelace sum of the ring through coords (closed implicitly)
ShoelaceTerm(coords, i) ==
    LET j == IF i = Len(coords) THEN 1 ELSE i + 1
    IN  coords[i][1] * coords[j][2] - coords[j][1] * coords[i][2]

RECURSIVE ShoelaceSum(_, _)
ShoelaceSum(coords, i) ==
    IF i = 0 THEN 0 ELSE ShoelaceTerm(coords, i) + ShoelaceSum(coords, i - 1)

\* twice Polygon(coords).area: the absolute value of the signed ring area
Area2(coords) == Abs(ShoelaceSum(coords, Len(coords)))

---------------------------------------------------------------------------
(* Configuration: the Config object read by every component.               *)
(* A configuration is a record                                             *)
(*   max_attempts        simulation.max_attempts                           *)
(*   area_threshold      trajectory.area_threshold as <<num, den>>         *)
(*   tolerance           simulation.tolerance                              *)
(*   closing_distance    simulation.closing_distance: {} when not set      *)
(*   strategy            gps.sampling_strategy                             *)
(*   sampling_distance   gps.sampling_distance                             *)
(*   sampling_interval   gps.sampling_interval                             *)
(*   initial_accuracy    gps.initial_accuracy (thousandths)                *)
(*   initial_strengths   the draws of uniform(initial_signal_strength_min, *)
(*                       initial_signal_strength_max) used (hundredths)    *)
(*   min_accuracy, max_accuracy   gps.min_accuracy, gps.max_accuracy       *)
(*   min_signal_strength gps.min_signal_strength (hundredths)              *)
(*   time_unit           gps.time_unit                                     *)
(*   deviation           person.deviation_probability > 0                  *)
(*   max_deviation_cos2  cos^2 of person.max_deviation_angle, <<num, den>> *)
(*   speed_range         person.speed_range, in tenths                     *)
(*   correction_threshold, correction_factor (<<num, den>>)                *)
(***************************************************************************)

BaseConfig ==
    [ max_attempts         |-> 2,
      area_threshold       |-> <<9, 10>>,
      tolerance            |-> 1,
      closing_distance     |-> {},
      strategy             |-> "distance",
      sampling_distance    |-> 1,
      sampling_interval    |-> 1,
      initial_accuracy     |-> 5000,
      initial_strengths    |-> {100},
      min_accuracy         |-> DefaultMinAccuracy,
      max_accuracy         |-> DefaultMaxAccuracy,
      min_signal_strength  |-> 40,
      time_unit            |-> "second",
      deviation            |-> FALSE,
      max_deviation_cos2   |-> <<1, 2>>,
      speed_range          |-> <<8, 15>>,
      correction_threshold |-> 5,
      correction_factor    |-> <<1, 2>> ]

---------------------------------------------------------------------------
(* GPSDevice / AdvancedGPSDevice: pure parts *)

\* GPSDevice._get_time_unit_factor, for the units with an integral factor
TimeUnitFactor(time_unit) ==
    IF time_unit = "minute" THEN 60
    ELSE IF time_unit = "hour" THEN 3600
    ELSE 1

\* AdvancedGPSDevice._update_signal_strength
UpdateSignalStrength(signal_strength, strength_change, min_strength) ==
    Max(min_strength, Min(100, signal_strength + strength_change))

\* _update_accuracy without the final clamp
UpdateAccuracyUnclamped(signal_strength, accuracy_variation, min_accuracy, max_accuracy) ==
    (max_accuracy - ((signal_strength * (max_accuracy - min_accuracy)) \div 100))
        + accuracy_variation

\* AdvancedGPSDevice._update_accuracy
UpdateAccuracy(signal_strength, accuracy_variation, min_accuracy, max_accuracy) ==
    LET accuracy_range == max_accuracy - min_accuracy
        acc == max_accuracy - ((signal_strength * accuracy_range) \div 100)
    IN  Max(min_accuracy, Min(max_accuracy, acc + accuracy_variation))

\* _update_position taking the fix-jump branch on every update
PositionErrorsAlwaysJump(signal_strength, old_signal_strength, acc) ==
    {e \in Offsets : DistSq(e, <<0, 0>>) * 1000000 <= acc * acc}

\* AdvancedGPSDevice._update_position: the displacements that the branch
\* taken can add to the position (fix jump: length <= accuracy, jitter:
\* length <= accuracy / 10)
PositionErrors(signal_strength, old_signal_strength, acc) ==
    IF signal_strength - old_signal_strength > SIGNAL_IMPROVEMENT_THRESHOLD
    THEN {e \in Offsets : DistSq(e, <<0, 0>>) * 1000000 <= acc * acc}
    ELSE {e \in Offsets : DistSq(e, <<0, 0>>) * 100000000 <= acc * acc}

\* AdvancedGPSDevice.get_data (the derived wgs84_position is left out).
\* origin is a history field: the simulate call and the attempt in which the
\* data was read, and the operation that read it.
GetData(pos, time, acc, strength, origin) ==
    [ position |-> pos, altitude |-> 0, timestamp |-> time, heading |-> 0,
      accuracy |-> acc, signal_strength |-> strength, origin |-> origin ]

Origin(call, att, by) == [call |-> call, attempt |-> att, by |-> by]

\* record_data without the test of is_paused
RecordDataWhilePaused(traj, recording, paused, data) ==
    IF recording THEN Append(traj, data) ELSE traj

\* GPSDevice.record_data
RecordData(traj, recording, paused, data) ==
    IF recording /\ ~paused THEN Append(traj, data) ELSE traj

---------------------------------------------------------------------------
(* Sampling strategies *)

\* the distance comparison turned around
DistanceShouldSampleFlipped(pos, last_pos, sampling_distance) ==
    DistSq(pos, last_pos) <= sampling_distance * sampling_distance

\* DistanceSamplingStrategy.should_sample
DistanceShouldSample(pos, last_pos, sampling_distance) ==
    DistSq(pos, last_pos) >= sampling_distance * sampling_distance

\* a time decision taken one time unit early
TimeShouldSampleEarly(time, last_time, sampling_interval) ==
    time - last_time + 1 >= sampling_interval

\* TimeSamplingStrategy.should_sample: the decision
TimeShouldSample(time, last_time, sampling_interval) ==
    time - last_time >= sampling_interval

\* a time strategy that never commits its watermark
TimeWatermarkStale(time, last_time, sampling_interval) == last_time

\* a time strategy committing its watermark on every call
TimeWatermarkAlways(time, last_time, sampling_interval) == time

\* TimeSamplingStrategy.should_sample: the watermark after the call
TimeWatermark(time, last_time, sampling_interval) ==
    IF TimeShouldSample(time, last_time, sampling_interval) THEN time ELSE last_time

\* a distance strategy that keeps the time of its call
ShouldSampleKeepingTime(cfg, pos, last_pos, time, last_time) ==
    LET d == DistanceShouldSample(pos, last_pos, cfg.sampling_distance)
        t == TimeShouldSample(time, last_time, cfg.sampling_interval)
        w == TimeWatermark(time, last_time, cfg.sampling_interval)
    IN  IF cfg.strategy = "distance" THEN [sample |-> d, last_time |-> time]
        ELSE IF cfg.strategy = "time" THEN [sample |-> t, last_time |-> w]
        ELSE IF d THEN [sample |-> TRUE, last_time |-> last_time]
        ELSE [sample |-> t, last_time |-> w]

\* SamplingStrategy.should_sample of the strategy made by the factory: the
\* decision and the time watermark left behind.  The hybrid strategy is
\* "distance or time": the time strategy is evaluated only when the distance
\* strategy says no.
ShouldSample(cfg, pos, last_pos, time, last_time) ==
    LET d == DistanceShouldSample(pos, last_pos, cfg.sampling_distance)
        t == TimeShouldSample(time, last_time, cfg.sampling_interval)
        w == TimeWatermark(time, last_time, cfg.sampling_interval)
    IN  IF cfg.strategy = "distance" THEN [sample |-> d, last_time |-> last_time]
        ELSE IF cfg.strategy = "time" THEN [sample |-> t, last_time |-> w]
        ELSE IF d THEN [sample |-> TRUE, last_time |-> last_time]
        ELSE [sample |-> t, last_time |-> w]

---------------------------------------------------------------------------
(* InspectionTask *)

\* InspectionTask.update_current_edge
CurrentEdge(vertices, index) ==
    <<vertices[index + 1], vertices[((index + 1) % Len(vertices)) + 1]>>

\* InspectionTask.is_complete
IsComplete(vertices, index) == index >= Len(vertices) - 1

\* get_next_target giving the vertex the current edge starts from
GetNextTargetCurrent(vertices, index) == vertices[index + 1]

\* InspectionTask.get_next_target (called only when not complete)
GetNextTarget(vertices, index) == vertices[index + 2]

\* config.get(Config.CLOSING_DISTANCE_KEY, tolerance)
ClosingDistance(cfg, tol) ==
    IF cfg.closing_distance = {} THEN tol ELSE CHOOSE c \in cfg.closing_distance : TRUE

\* the comparison with twice the limit
WithinTwice(point, end_point, limit) ==
    limit > 0 /\ DistSq(point, end_point) < 4 * limit * limit

\* point.distance(end_point) < limit
Within(point, end_point, limit) ==
    limit > 0 /\ DistSq(point, end_point) < limit * limit

\* InspectionTask.is_on_current_edge
IsOnCurrentEdge(cfg, vertices, index, edge, point, tol) ==
    IF index = Len(vertices) - 1
    THEN Within(point, edge[2], ClosingDistance(cfg, tol))
    ELSE Within(point, edge[2], tol)

\* the return value announcing the end one edge early
MoveReturnsEarly(vertices, index) == ~(index + 2 >= Len(vertices) - 1)

\* InspectionTask.move_to_next_target: the return value
MoveReturns(vertices, index) == ~(index + 1 >= Len(vertices) - 1)

---------------------------------------------------------------------------
(* TrajectorySimulator.is_valid_trajectory *)

Positions(traj) == [i \in 1..Len(traj) |-> traj[i].position]

\* the ratio taken upside down: original_area / trajectory_area
AreaRatioInverted(traj, polygon, threshold) ==
    Area2(polygon) * threshold[2] >= threshold[1] * Area2(Positions(traj))

\* trajectory_area / original_area >= area_threshold, for original_area > 0
AreaRatioOk(traj, polygon, threshold) ==
    Area2(Positions(traj)) * threshold[2] >= threshold[1] * Area2(polygon)

IsValidTrajectory(traj, polygon, threshold) ==
    IF Len(traj) < 3 THEN FALSE ELSE AreaRatioOk(traj, polygon, threshold)

\* is_valid_trajectory raises instead of returning: the division by an
\* original_area of 0.0 is a ZeroDivisionError, and only ValueError is caught
ValidationRaises(traj, polygon) == Len(traj) >= 3 /\ Area2(polygon) = 0

---------------------------------------------------------------------------
(* Person / RealisticMovementStrategy *)

Dot(a, b) == a[1] * b[1] + a[2] * b[2]

Cross(a, b) == a[1] * b[2] - a[2] * b[1]

Sub(p, q) == <<p[1] - q[1], p[2] - q[2]>>

\* direction of atan2(dy, dx): atan2(0, 0) is 0, the direction of the x axis
HeadingVector(gps_position, target) ==
    IF target = gps_position THEN <<1, 0>> ELSE Sub(target, gps_position)

\* the displacement d follows the heading h exactly
AlongHeading(d, h) == Cross(d, h) = 0 /\ Dot(d, h) > 0

\* the displacement d is within the maximal deviation angle of the heading h
WithinDeviation(d, h, cos2) ==
    /\ Dot(d, h) > 0
    /\ Dot(d, h) * Dot(d, h) * cos2[2] >= cos2[1] * Dot(d, d) * Dot(h, h)

\* RealisticMovementStrategy.move: the grid points it can return (the speed
\* is drawn from speed_range, time_step and elapsed_time are 1)
StrategyMove(cfg, gps_position, target) ==
    LET h == HeadingVector(gps_position, target)
    IN  { Add(gps_position, d) : d \in
            { e \in Offsets :
                /\ Dot(e, e) * 100 >= cfg.speed_range[1] * cfg.speed_range[1]
                /\ Dot(e, e) * 100 <= cfg.speed_range[2] * cfg.speed_range[2]
                /\ \/ AlongHeading(e, h)
                   \/ cfg.deviation /\ WithinDeviation(e, h, cfg.max_deviation_cos2) } }

\* segment i of the exterior ring
Segment(ring, i) == <<ring[i], ring[i + 1]>>

\* the square of the distance from p to the segment a-b is > limit2 (or >=)
SegmentFarther(p, a, b, limit2, strict) ==
    LET ab == Sub(b, a)
        ap == Sub(p, a)
        t  == Dot(ap, ab)
        l2 == Dot(ab, ab)
        num == IF l2 = 0 \/ t <= 0 THEN DistSq(p, a) * Max(l2, 1)
               ELSE IF t >= l2 THEN DistSq(p, b) * l2
               ELSE Cross(ap, ab) * Cross(ap, ab)
    IN  IF strict THEN num > limit2 * Max(l2, 1) ELSE num >= limit2 * Max(l2, 1)

\* needs_course_correction with >= in place of >
NeedsCourseCorrectionInclusive(cfg, ring, p) ==
    \A i \in 1..(Len(ring) - 1) :
        SegmentFarther(p, ring[i], ring[i + 1],
                       cfg.correction_threshold * cfg.correction_threshold, FALSE)

\* Person.needs_course_correction: exterior.distance(position) > threshold
NeedsCourseCorrection(cfg, ring, p) ==
    \A i \in 1..(Len(ring) - 1) :
        SegmentFarther(p, ring[i], ring[i + 1],
                       cfg.correction_threshold * cfg.correction_threshold, TRUE)

\* n lies on the segment a-b
OnSegment(n, a, b) ==
    /\ Cross(Sub(n, a), Sub(b, a)) = 0
    /\ Dot(Sub(n, a), Sub(b, a)) >= 0
    /\ Dot(Sub(n, a), Sub(b, a)) <= Dot(Sub(b, a), Sub(b, a))

\* exterior.interpolate(exterior.project(p)): the grid points of the ring
\* nearest to p (none when the nearest point is off the grid)
NearestPoints(ring, p) ==
    { n \in { Add(p, e) : e \in Offsets } :
        /\ \E i \in 1..(Len(ring) - 1) : OnSegment(n, ring[i], ring[i + 1])
        /\ \A i \in 1..(Len(ring) - 1) :
              SegmentFarther(p, ring[i], ring[i + 1], DistSq(p, n), FALSE) }

\* Person.correct_course: the position moved towards the nearest point by
\* correction_factor, when that lands on the grid
CorrectCourse(cfg, ring, p) ==
    { q \in { Add(p, e) : e \in Offsets } :
        \E n \in NearestPoints(ring, p) :
            /\ (q[1] - p[1]) * cfg.correction_factor[2] = (n[1] - p[1]) * cfg.correction_factor[1]
            /\ (q[2] - p[2]) * cfg.correction_factor[2] = (n[2] - p[2]) * cfg.correction_factor[1] }

\* Person.move: the new positions it can return
PersonMove(cfg, ring, gps_position, target) ==
    UNION { IF NeedsCourseCorrection(cfg, ring, c)
            THEN CorrectCourse(cfg, ring, c)
            ELSE {c} : c \in StrategyMove(cfg, gps_position, target) }

---------------------------------------------------------------------------
(* Inputs *)

\* polygon.exterior.coords of Polygon([(0,0), (1,0), (0,1)]): the ring is closed
Triangle == << <<0, 0>>, <<1, 0>>, <<0, 1>>, <<0, 0>> >>

\* a triangle with edges of 5 units and more
Triangle5 == << <<0, 0>>, <<5, 0>>, <<0, 5>>, <<0, 0>> >>

\* Polygon([(0,0), (1,0), (2,0)]): a collapsed ring, of area 0
Collapsed == << <<0, 0>>, <<1, 0>>, <<2, 0>>, <<0, 0>> >>

\* Polygon(): no vertex at all
Empty == << >>

Polygons == {Triangle, Triangle5, Collapsed, Empty}

StartTimes == {0, 10}

\* the calls simulate(start_time, start_position, polygon) explored
SimulateCalls ==
    { <<st, Triangle[1], Triangle>> : st \in StartTimes } \cup
    { <<st, Triangle5[1], Triangle5>> : st \in StartTimes } \cup
    { <<0, Collapsed[1], Collapsed>>, <<0, <<0, 0>>, Empty>> }

\* arguments of the direct calls on a device
SetTimes == {10}

SetPositions == {<<1, 1>>}

UpdateOffsets == {<<1, 0>>}

\* readings of time.time() in the main loop
WallClock == {100, 101}

\* the configurations explored: the base one and variations of one key group
Configs ==
    { BaseConfig,
      [BaseConfig EXCEPT !.area_threshold = <<11, 10>>],
      [BaseConfig EXCEPT !.area_threshold = <<11, 10>>, !.max_attempts = 1],
      [BaseConfig EXCEPT !.max_attempts = 0],
      [BaseConfig EXCEPT !.max_attempts = -1],
      [BaseConfig EXCEPT !.sampling_distance = 2],
      [BaseConfig EXCEPT !.strategy = "time", !.sampling_interval = 2],
      [BaseConfig EXCEPT !.strategy = "hybrid", !.sampling_distance = 2,
                         !.sampling_interval = 2],
      \* heading deviations, constant signal
      [BaseConfig EXCEPT !.deviation = TRUE, !.min_signal_strength = 100],
      \* accuracy of 10 units: jitter of up to one unit, constant signal
      [BaseConfig EXCEPT !.min_accuracy = 10000, !.max_accuracy = 10000,
                         !.min_signal_strength = 100, !.tolerance = 2,
                         !.sampling_distance = 2, !.max_attempts = 1],
      \* hybrid sampling with distance 10 and interval 5, constant signal
      [BaseConfig EXCEPT !.strategy = "hybrid", !.sampling_distance = 10,
                         !.sampling_interval = 5, !.min_signal_strength = 100,
                         !.max_attempts = 1],
      \* steps of exactly 2 units, constant signal, no position error
      [BaseConfig EXCEPT !.speed_range = <<20, 20>>, !.min_signal_strength = 100,
                         !.min_accuracy = 0, !.max_accuracy = 0,
                         !.max_attempts = 1] }

\* the configurations of a device driven directly
DeviceConfigs ==
    { BaseConfig,
      [BaseConfig EXCEPT !.initial_strengths = {30}, !.max_accuracy = 3000],
      [BaseConfig EXCEPT !.strategy = "time", !.sampling_interval = 2],
      [BaseConfig EXCEPT !.strategy = "hybrid", !.sampling_distance = 2,
                         !.sampling_interval = 2],
      \* a device starting below the minimum strength: the first update
      \* raises the signal by 0.3; accuracy of one unit
      [BaseConfig EXCEPT !.initial_strengths = {10}, !.min_accuracy = 1000,
                         !.max_accuracy = 1000],
      \* the default signal keys, from the lower end of the initial range
      [BaseConfig EXCEPT !.initial_strengths = {80}] }

---------------------------------------------------------------------------
(* State *)

VARIABLES
    config,                 \* the Config object
    \* GPSDevice
    trajectory,             \* GPSDevice.trajectory
    is_recording,
    is_paused,
    current_time,
    position,
    accuracy,
    signal_strength,        \* AdvancedGPSDevice.__signal_strength
    last_sampled_position,
    last_sample_time,       \* TimeSamplingStrategy.last_sample_time
    \* InspectionTask of the current attempt
    target_index,
    current_edge,
    \* TrajectorySimulator.simulate: arguments, locals and control
    pc,                     \* "idle", "loop", "start", "tick", "validate", "done", "raised"
    polygon,
    start_time,
    start_position,
    attempt,                \* the loop variable of range(max_attempts)
    last_update_time,       \* TrajectorySimulator.last_update_time (0: not set yet)
    returned,               \* the value returned by the last completed call
    raised,                 \* the exception that ended the last call, or "none"
    events,                 \* what an observer of the simulator received in this call
    \* history
    calls,                  \* number of simulate calls started
    ticks,                  \* number of update calls made on the device
    ops,                    \* number of direct calls made on the device or task
    result,                 \* the last direct call on a task and what it returned
    \* the batch simulator of toolbox/trajectory_simulators.py
    simulation_params,      \* TrajectorySimulator.simulation_params
    person,                 \* the Person walking the polygon
    rows,                   \* the rows given to insert_cursor.insertRow
    log                     \* the lines written to the log file

device == <<trajectory, is_recording, is_paused, current_time, position, accuracy,
            signal_strength, last_sampled_position, last_sample_time>>

task == <<target_index, current_edge>>

args == <<polygon, start_time, start_position>>

simulator == <<task, args, pc, attempt, last_update_time, returned, raised, calls>>

batch == <<simulation_params, person, rows, log>>

vars == <<config, device, task, args, pc, attempt, last_update_time, returned, raised,
          events, calls, ticks, ops, result, batch>>

\* no direct call was made on the task yet
NoCall == [op |-> "none"]

\* toolbox Person(0), every default argument of the constructor: speeds in
\* tenths of a metre per second, stamina in thousandths, the rates and factors
\* as <<numerator, denominator>>
DefaultPerson ==
    [ number |-> 0,
      max_speed |-> 30,
      min_speed |-> 7,
      max_stamina |-> 100000,
      current_stamina |-> 100000,
      stamina_consumption_base |-> <<1, 10>>,
      stamina_recovery_rate |-> <<1, 2>>,
      walking_recovery_factor |-> <<1, 5>>,
      min_stamina_to_walk |-> 40000 ]

\* person 1 of the default configuration
ConfigPerson1 ==
    [ number |-> 1,
      max_speed |-> 15,
      min_speed |-> 5,
      max_stamina |-> 100000,
      current_stamina |-> 100000,
      stamina_consumption_base |-> <<1, 20>>,
      stamina_recovery_rate |-> <<1, 10>>,
      walking_recovery_factor |-> <<3, 10>>,
      min_stamina_to_walk |-> 20000 ]

\* simulation_params of the default configuration, the area ratios in hundredths
DefaultSimulationParams ==
    [ sample_distance |-> 5,
      max_retries |-> 40,
      area_tolerance_min |-> 95,
      area_tolerance_max |-> 100 ]

\* the batch simulator before any polygon is processed
InitBatch ==
    /\ simulation_params = DefaultSimulationParams
    /\ person = DefaultPerson
    /\ rows = <<>>
    /\ log = <<>>

\* TrajectorySimulator.__init__: the device made by the factory, under one of
\* the given configurations
InitWith(configs) ==
    /\ config \in configs
    /\ trajectory = <<>>
    /\ is_recording = FALSE
    /\ is_paused = FALSE
    /\ current_time = 0
    /\ position = <<0, 0>>
    /\ accuracy = config.initial_accuracy
    /\ signal_strength \in config.initial_strengths
    /\ last_sampled_position = <<0, 0>>
    /\ last_sample_time = 0
    /\ target_index = 0
    /\ current_edge = << <<0, 0>>, <<0, 0>> >>
    /\ pc = "idle"
    /\ polygon = <<>>
    /\ start_time = 0
    /\ start_position = <<0, 0>>
    /\ attempt = 0
    /\ last_update_time = 0
    /\ returned = <<>>
    /\ raised = "none"
    /\ events = <<>>
    /\ calls = 0
    /\ ticks = 0
    /\ ops = 0
    /\ result = NoCall
    /\ InitBatch

Init == InitWith(Configs)

---------------------------------------------------------------------------
(* Events received by an observer *)

Event(kind) == [kind |-> kind]

AttemptEvent(kind, n, max) == [kind |-> kind, attempt |-> n, max_attempts |-> max]

SuccessEvent(n) == [kind |-> "simulation_success", attempt |-> n]

FailureEvent(max) == [kind |-> "simulation_failure", max_attempts |-> max]

UpdateEvent(data) == [kind |-> "update", data |-> data]

\* on_gps_stop_recording; is_recording is a history field: the flag of the
\* device as the observer finds it inside the callback
StopRecordingEvent(recording) == [kind |-> "stop_recording", is_recording |-> recording]

---------------------------------------------------------------------------
(* GPSDevice operations; call and att name the caller in the history fields *)

\* start_recording emptying the buffer first
DeviceStartRecordingClearing(call, att) ==
    LET data == GetData(position, current_time, accuracy, signal_strength,
                        Origin(call, att, "start_recording"))
    IN  /\ is_recording' = TRUE
        /\ is_paused' = FALSE
        /\ trajectory' = RecordData(<<>>, TRUE, FALSE, data)
        /\ events' = events \o <<Event("start_recording"), UpdateEvent(data)>>
        /\ UNCHANGED <<current_time, position, accuracy, signal_strength,
                       last_sampled_position, last_sample_time>>

\* GPSDevice.start_recording
DeviceStartRecording(call, att) ==
    LET data == GetData(position, current_time, accuracy, signal_strength,
                        Origin(call, att, "start_recording"))
    IN  /\ is_recording' = TRUE
        /\ is_paused' = FALSE
        /\ trajectory' = RecordData(trajectory, TRUE, FALSE, data)
        /\ events' = events \o <<Event("start_recording"), UpdateEvent(data)>>
        /\ UNCHANGED <<current_time, position, accuracy, signal_strength,
                       last_sampled_position, last_sample_time>>

\* stop_recording without the final sample
DeviceStopRecordingNoSample(call, att) ==
    LET data == GetData(position, current_time, accuracy, signal_strength,
                        Origin(call, att, "stop_recording"))
    IN  /\ events' = events \o <<UpdateEvent(data), StopRecordingEvent(FALSE)>>
        /\ is_recording' = FALSE
        /\ is_paused' = FALSE
        /\ UNCHANGED <<trajectory, current_time, position, accuracy, signal_strength,
                       last_sampled_position, last_sample_time>>

\* stop_recording notifying the stop before the final data
DeviceStopRecordingStopFirst(call, att) ==
    LET data == GetData(position, current_time, accuracy, signal_strength,
                        Origin(call, att, "stop_recording"))
    IN  /\ trajectory' = RecordData(trajectory, is_recording, is_paused, data)
        /\ events' = events \o <<StopRecordingEvent(FALSE), UpdateEvent(data)>>
        /\ is_recording' = FALSE
        /\ is_paused' = FALSE
        /\ UNCHANGED <<current_time, position, accuracy, signal_strength,
                       last_sampled_position, last_sample_time>>

\* GPSDevice.stop_recording
DeviceStopRecording(call, att) ==
    LET data == GetData(position, current_time, accuracy, signal_strength,
                        Origin(call, att, "stop_recording"))
    IN  /\ trajectory' = RecordData(trajectory, is_recording, is_paused, data)
        /\ events' = events \o <<UpdateEvent(data), StopRecordingEvent(FALSE)>>
        /\ is_recording' = FALSE
        /\ is_paused' = FALSE
        /\ UNCHANGED <<current_time, position, accuracy, signal_strength,
                       last_sampled_position, last_sample_time>>

\* pause_recording without the test of is_recording
DevicePauseRecordingAlways ==
    /\ is_paused' = TRUE
    /\ events' = Append(events, Event("pause_recording"))
    /\ UNCHANGED <<trajectory, is_recording, current_time, position, accuracy,
                   signal_strength, last_sampled_position, last_sample_time>>

\* GPSDevice.pause_recording
DevicePauseRecording ==
    /\ IF is_recording
       THEN /\ is_paused' = TRUE
            /\ events' = Append(events, Event("pause_recording"))
       ELSE UNCHANGED <<is_paused, events>>
    /\ UNCHANGED <<trajectory, is_recording, current_time, position, accuracy,
                   signal_strength, last_sampled_position, last_sample_time>>

\* GPSDevice.resume_recording
DeviceResumeRecording ==
    /\ IF is_recording /\ is_paused
       THEN /\ is_paused' = FALSE
            /\ events' = Append(events, Event("resume_recording"))
       ELSE UNCHANGED <<is_paused, events>>
    /\ UNCHANGED <<trajectory, is_recording, current_time, position, accuracy,
                   signal_strength, last_sampled_position, last_sample_time>>

\* GPSDevice.set_time
DeviceSetTime(new_time) ==
    /\ current_time' = new_time
    /\ UNCHANGED <<trajectory, is_recording, is_paused, position, accuracy,
                   signal_strength, last_sampled_position, last_sample_time>>

\* GPSDevice.set_position
DeviceSetPosition(new_position) ==
    /\ position' = new_position
    /\ UNCHANGED <<trajectory, is_recording, is_paused, current_time, accuracy,
                   signal_strength, last_sampled_position, last_sample_time>>

\* AdvancedGPSDevice.update(elapsed_time, offset); the random draws of the
\* signal change and of the accuracy variation are taken from the given sets
DeviceUpdate(elapsed_time, offset, strength_changes, accuracy_variations, call, att) ==
    \E strength_change \in strength_changes, accuracy_variation \in accuracy_variations :
      LET time == current_time + elapsed_time * TimeUnitFactor(config.time_unit)
          strength == UpdateSignalStrength(signal_strength, strength_change,
                                           config.min_signal_strength)
          acc == UpdateAccuracy(strength, accuracy_variation,
                                config.min_accuracy, config.max_accuracy)
      IN  \E error \in PositionErrors(strength, signal_strength, acc) :
            LET pos == Add(Add(position, offset), error)
                decision == ShouldSample(config, pos, last_sampled_position,
                                         time, last_sample_time)
                data == GetData(pos, time, acc, strength, Origin(call, att, "update"))
            IN  /\ current_time' = time
                /\ signal_strength' = strength
                /\ accuracy' = acc
                /\ position' = pos
                /\ last_sample_time' = decision.last_time
                /\ IF decision.sample
                   THEN /\ trajectory' = RecordData(trajectory, is_recording, is_paused, data)
                        /\ last_sampled_position' = pos
                        /\ events' = Append(events, UpdateEvent(data))
                   ELSE UNCHANGED <<trajectory, last_sampled_position, events>>
                /\ UNCHANGED <<is_recording, is_paused>>

---------------------------------------------------------------------------
(* TrajectorySimulator.simulate, statement by statement *)

\* a call of simulate(start_time, start_position, polygon)
Simulate(st, sp, poly) ==
    /\ pc \in {"idle", "done", "raised"}
    /\ calls < MaxCalls
    /\ calls' = calls + 1
    /\ polygon' = poly
    /\ start_time' = st
    /\ start_position' = sp
    /\ attempt' = 0
    /\ events' = <<>>
    /\ raised' = "none"
    /\ pc' = "loop"
    /\ UNCHANGED <<batch, config, device, task, last_update_time, returned, ticks, ops, result>>

\* the top of the loop leaving the device where the last attempt ended
AttemptBeginWherePersonStands ==
    /\ pc = "loop"
    /\ attempt < config.max_attempts
    /\ events' = Append(events, AttemptEvent("simulation_attempt", attempt + 1,
                                             config.max_attempts))
    /\ current_time' = start_time
    /\ last_update_time' = start_time
    /\ IF Len(polygon) = 0
       THEN /\ raised' = "IndexError"
            /\ pc' = "raised"
            /\ UNCHANGED task
       ELSE /\ target_index' = 0
            /\ current_edge' = CurrentEdge(polygon, 0)
            /\ pc' = "start"
            /\ UNCHANGED raised
    /\ UNCHANGED <<batch, config, position, trajectory, is_recording, is_paused, accuracy, signal_strength,
                   last_sampled_position, last_sample_time, args, attempt, returned,
                   calls, ticks, ops, result>>

\* a loop that runs its body once before looking at max_attempts
AttemptBeginAtLeastOnce ==
    /\ pc = "loop"
    /\ attempt < Max(1, config.max_attempts)
    /\ events' = Append(events, AttemptEvent("simulation_attempt", attempt + 1,
                                             config.max_attempts))
    /\ current_time' = start_time
    /\ position' = start_position
    /\ last_update_time' = start_time
    /\ IF Len(polygon) = 0
       THEN /\ raised' = "IndexError"
            /\ pc' = "raised"
            /\ UNCHANGED task
       ELSE /\ target_index' = 0
            /\ current_edge' = CurrentEdge(polygon, 0)
            /\ pc' = "start"
            /\ UNCHANGED raised
    /\ UNCHANGED <<batch, config, trajectory, is_recording, is_paused, accuracy, signal_strength,
                   last_sampled_position, last_sample_time, args, attempt, returned,
                   calls, ticks, ops, result>>

\* top of the for loop: notify simulation_attempt, then reset_simulation.
\* InspectionTask.__init__ reads valid_vertices[0]: an IndexError on a ring
\* without vertices, after the device was reset
AttemptBegin ==
    /\ pc = "loop"
    /\ attempt < config.max_attempts
    /\ events' = Append(events, AttemptEvent("simulation_attempt", attempt + 1,
                                             config.max_attempts))
    /\ current_time' = start_time
    /\ position' = start_position
    /\ last_update_time' = start_time
    /\ IF Len(polygon) = 0
       THEN /\ raised' = "IndexError"
            /\ pc' = "raised"
            /\ UNCHANGED task
       ELSE /\ target_index' = 0
            /\ current_edge' = CurrentEdge(polygon, 0)
            /\ pc' = "start"
            /\ UNCHANGED raised
    /\ UNCHANGED <<batch, config, trajectory, is_recording, is_paused, accuracy, signal_strength,
                   last_sampled_position, last_sample_time, args, attempt, returned,
                   calls, ticks, ops, result>>

\* self.gps.start_recording()
StartRecording ==
    /\ pc = "start"
    /\ DeviceStartRecording(calls, attempt + 1)
    /\ pc' = "tick"
    /\ UNCHANGED <<batch, config, task, args, attempt, last_update_time, returned, raised, calls, ticks,
                   ops, result>>

\* elapsed_time as if taken from the wall clock
ElapsedTimeFromClock(wall, last) == wall - last

\* elapsed_time of one iteration: the constant 1, whatever time.time() read
ElapsedTime(wall, last) == 1

\* an iteration that passes two vertices at once
TickSkippingVertex ==
    /\ pc = "tick"
    /\ ~IsComplete(polygon, target_index)
    /\ ticks < MaxTicks
    /\ \E wall \in WallClock :
         /\ last_update_time' = wall
         /\ \E new_position \in PersonMove(config, polygon, position,
                                           GetNextTarget(polygon, target_index)) :
              DeviceUpdate(ElapsedTime(wall, last_update_time),
                           Sub(new_position, position), TickStrengthChanges,
                           TickAccuracyVariations, calls, attempt + 1)
    /\ IF IsOnCurrentEdge(config, polygon, target_index, current_edge, position',
                          config.tolerance)
       THEN /\ target_index' = target_index + 2
            /\ current_edge' = IF MoveReturns(polygon, target_index + 1)
                               THEN CurrentEdge(polygon, target_index + 2)
                               ELSE current_edge
       ELSE UNCHANGED task
    /\ ticks' = ticks + 1
    /\ UNCHANGED <<batch, config, args, pc, attempt, returned, raised, calls, ops, result>>

\* one iteration of the main loop: Person.move, AdvancedGPSDevice.update and
\* the edge check on the position the device reports afterwards
Tick ==
    /\ pc = "tick"
    /\ ~IsComplete(polygon, target_index)
    /\ ticks < MaxTicks
    /\ \E wall \in WallClock :
         /\ last_update_time' = wall
         /\ \E new_position \in PersonMove(config, polygon, position,
                                           GetNextTarget(polygon, target_index)) :
              DeviceUpdate(ElapsedTime(wall, last_update_time),
                           Sub(new_position, position), TickStrengthChanges,
                           TickAccuracyVariations, calls, attempt + 1)
    /\ IF IsOnCurrentEdge(config, polygon, target_index, current_edge, position',
                          config.tolerance)
       THEN /\ target_index' = target_index + 1
            /\ current_edge' = IF MoveReturns(polygon, target_index)
                               THEN CurrentEdge(polygon, target_index + 1)
                               ELSE current_edge
       ELSE UNCHANGED task
    /\ ticks' = ticks + 1
    /\ UNCHANGED <<batch, config, args, pc, attempt, returned, raised, calls, ops, result>>

\* self.gps.stop_recording(), after the loop
StopRecording ==
    /\ pc = "tick"
    /\ IsComplete(polygon, target_index)
    /\ DeviceStopRecording(calls, attempt + 1)
    /\ pc' = "validate"
    /\ UNCHANGED <<batch, config, task, args, attempt, last_update_time, returned, raised, calls, ticks,
                   ops, result>>

\* the validation step going on with the loop after a success
ValidateNoReturn ==
    /\ pc = "validate"
    /\ IF ValidationRaises(trajectory, polygon)
       THEN /\ raised' = "ZeroDivisionError"
            /\ pc' = "raised"
            /\ UNCHANGED <<events, returned, attempt>>
       ELSE /\ IF IsValidTrajectory(trajectory, polygon, config.area_threshold)
               THEN /\ events' = Append(events, SuccessEvent(attempt + 1))
                    /\ returned' = trajectory
               ELSE /\ events' = Append(events, AttemptEvent("simulation_retry", attempt + 1,
                                                             config.max_attempts))
                    /\ UNCHANGED returned
            /\ attempt' = attempt + 1
            /\ pc' = "loop"
            /\ UNCHANGED raised
    /\ UNCHANGED <<batch, config, trajectory, is_recording, is_paused, current_time, position,
                   accuracy, signal_strength, last_sampled_position, last_sample_time,
                   task, args, last_update_time, calls, ticks, ops, result>>

\* is_valid_trajectory on gps.get_trajectory(): success and return, retry, or
\* the exception of is_valid_trajectory leaving simulate
Validate ==
    /\ pc = "validate"
    /\ IF ValidationRaises(trajectory, polygon)
       THEN /\ raised' = "ZeroDivisionError"
            /\ pc' = "raised"
            /\ UNCHANGED <<events, returned, attempt>>
       ELSE IF IsValidTrajectory(trajectory, polygon, config.area_threshold)
       THEN /\ events' = Append(events, SuccessEvent(attempt + 1))
            /\ returned' = trajectory
            /\ pc' = "done"
            /\ UNCHANGED <<attempt, raised>>
       ELSE /\ events' = Append(events, AttemptEvent("simulation_retry", attempt + 1,
                                                     config.max_attempts))
            /\ attempt' = attempt + 1
            /\ pc' = "loop"
            /\ UNCHANGED <<returned, raised>>
    /\ UNCHANGED <<batch, config, trajectory, is_recording, is_paused, current_time, position,
                   accuracy, signal_strength, last_sampled_position, last_sample_time,
                   task, args, last_update_time, calls, ticks, ops, result>>

\* after the for loop: simulation_failure, return gps.get_trajectory()
Fail ==
    /\ pc = "loop"
    /\ attempt >= config.max_attempts
    /\ events' = Append(events, FailureEvent(config.max_attempts))
    /\ returned' = trajectory
    /\ pc' = "done"
    /\ UNCHANGED <<batch, config, trajectory, is_recording, is_paused, current_time, position,
                   accuracy, signal_strength, last_sampled_position, last_sample_time,
                   task, args, attempt, last_update_time, raised, calls, ticks, ops,
                   result>>

Next ==
    \/ \E call \in SimulateCalls : Simulate(call[1], call[2], call[3])
    \/ AttemptBegin
    \/ StartRecording
    \/ Tick
    \/ StopRecording
    \/ Validate
    \/ Fail

Spec == Init /\ [][Next]_vars

---------------------------------------------------------------------------
(* A device driven directly by a client: any sequence of calls *)

Called ==
    /\ ops < MaxOps
    /\ ops' = ops + 1
    /\ UNCHANGED <<batch, config, simulator, result>>

CallStartRecording ==
    /\ Called
    /\ DeviceStartRecording(0, 0)
    /\ UNCHANGED ticks

CallStopRecording ==
    /\ Called
    /\ DeviceStopRecording(0, 0)
    /\ UNCHANGED ticks

CallPauseRecording ==
    /\ Called
    /\ DevicePauseRecording
    /\ UNCHANGED ticks

CallResumeRecording ==
    /\ Called
    /\ DeviceResumeRecording
    /\ UNCHANGED ticks

CallSetTime ==
    /\ Called
    /\ \E t \in SetTimes : DeviceSetTime(t)
    /\ UNCHANGED <<events, ticks>>

CallSetPosition ==
    /\ Called
    /\ \E p \in SetPositions : DeviceSetPosition(p)
    /\ UNCHANGED <<events, ticks>>

CallUpdate ==
    /\ Called
    /\ \E offset \in UpdateOffsets :
         DeviceUpdate(1, offset, StrengthChanges, AccuracyVariations, 0, 0)
    /\ ticks' = ticks + 1

NextDevice ==
    \/ CallStartRecording
    \/ CallStopRecording
    \/ CallPauseRecording
    \/ CallResumeRecording
    \/ CallSetTime
    \/ CallSetPosition
    \/ CallUpdate

SpecDevice == InitWith(DeviceConfigs) /\ [][NextDevice]_vars

---------------------------------------------------------------------------
(* An InspectionTask driven directly by a client: any sequence of calls *)

\* the points and tolerances passed to is_on_current_edge
TaskPoints == {<<0, 0>>, <<1, 0>>, <<0, 1>>, <<0, 2>>}

TaskTolerances == {1, 2}

TaskPolygons == {Triangle, Triangle5}

\* without and with simulation.closing_distance
TaskConfigs == {BaseConfig, [BaseConfig EXCEPT !.closing_distance = {3}]}

\* InspectionTask(polygon, config), next to a device that is left alone
InitTask ==
    /\ config \in TaskConfigs
    /\ polygon \in TaskPolygons
    /\ target_index = 0
    /\ current_edge = CurrentEdge(polygon, 0)
    /\ trajectory = <<>>
    /\ is_recording = FALSE
    /\ is_paused = FALSE
    /\ current_time = 0
    /\ position = <<0, 0>>
    /\ accuracy = config.initial_accuracy
    /\ signal_strength \in config.initial_strengths
    /\ last_sampled_position = <<0, 0>>
    /\ last_sample_time = 0
    /\ pc = "idle"
    /\ start_time = 0
    /\ start_position = <<0, 0>>
    /\ attempt = 0
    /\ last_update_time = 0
    /\ returned = <<>>
    /\ raised = "none"
    /\ events = <<>>
    /\ calls = 0
    /\ ticks = 0
    /\ ops = 0
    /\ result = NoCall
    /\ InitBatch

TaskCalled ==
    /\ ops < MaxOps
    /\ ops' = ops + 1
    /\ UNCHANGED <<batch, config, device, args, pc, attempt, last_update_time, returned, raised, events,
                   calls, ticks>>

\* InspectionTask.get_next_target; None is written <<>>
TaskGetNextTarget ==
    /\ TaskCalled
    /\ result' = [op |-> "get_next_target",
                  value |-> IF IsComplete(polygon, target_index) THEN <<>>
                            ELSE GetNextTarget(polygon, target_index)]
    /\ UNCHANGED task

\* InspectionTask.is_on_current_edge(point, tolerance)
TaskIsOnCurrentEdge ==
    /\ TaskCalled
    /\ \E point \in TaskPoints, tol \in TaskTolerances :
          result' = [op |-> "is_on_current_edge", point |-> point, tolerance |-> tol,
                     value |-> IsOnCurrentEdge(config, polygon, target_index,
                                               current_edge, point, tol)]
    /\ UNCHANGED task

\* move_to_next_target starting again from 0 after the last vertex
TaskMoveToNextTargetWrapping ==
    /\ TaskCalled
    /\ target_index' = (target_index + 1) % (Len(polygon) - 1)
    /\ current_edge' = CurrentEdge(polygon, target_index')
    /\ result' = [op |-> "move_to_next_target", value |-> MoveReturns(polygon, target_index)]

\* InspectionTask.move_to_next_target
TaskMoveToNextTarget ==
    /\ TaskCalled
    /\ target_index' = target_index + 1
    /\ current_edge' = IF MoveReturns(polygon, target_index)
                       THEN CurrentEdge(polygon, target_index + 1)
                       ELSE current_edge
    /\ result' = [op |-> "move_to_next_target", value |-> MoveReturns(polygon, target_index)]

\* InspectionTask.is_complete
TaskIsComplete ==
    /\ TaskCalled
    /\ result' = [op |-> "is_complete", value |-> IsComplete(polygon, target_index)]
    /\ UNCHANGED task

NextTask ==
    \/ TaskGetNextTarget
    \/ TaskIsOnCurrentEdge
    \/ TaskMoveToNextTarget
    \/ TaskIsComplete

SpecTask == InitTask /\ [][NextTask]_vars

---------------------------------------------------------------------------
(* A Person driven directly by a client: move, with the device put anywhere *)

\* a square with sides of 4 units
Square4 == << <<0, 0>>, <<4, 0>>, <<4, 4>>, <<0, 4>>, <<0, 0>> >>

\* where the device is put
PersonPositions == {<<x, y>> : x \in (-1)..5, y \in (-1)..5}

\* correction beyond 1 unit, by a factor of 0, 1/2 and 1; the default
\* threshold of 5 units
PersonConfigs ==
    { [BaseConfig EXCEPT !.correction_threshold = 1, !.correction_factor = <<0, 1>>],
      [BaseConfig EXCEPT !.correction_threshold = 1, !.correction_factor = <<1, 2>>],
      [BaseConfig EXCEPT !.correction_threshold = 1, !.correction_factor = <<1, 1>>],
      BaseConfig }

InitPerson ==
    /\ config \in PersonConfigs
    /\ polygon = Square4
    /\ target_index = 0
    /\ current_edge = CurrentEdge(polygon, 0)
    /\ trajectory = <<>>
    /\ is_recording = FALSE
    /\ is_paused = FALSE
    /\ current_time = 0
    /\ position = <<0, 0>>
    /\ accuracy = config.initial_accuracy
    /\ signal_strength \in config.initial_strengths
    /\ last_sampled_position = <<0, 0>>
    /\ last_sample_time = 0
    /\ pc = "idle"
    /\ start_time = 0
    /\ start_position = <<0, 0>>
    /\ attempt = 0
    /\ last_update_time = 0
    /\ returned = <<>>
    /\ raised = "none"
    /\ events = <<>>
    /\ calls = 0
    /\ ticks = 0
    /\ ops = 0
    /\ result = NoCall
    /\ InitBatch

PersonCalled ==
    /\ ops < MaxOps
    /\ ops' = ops + 1
    /\ UNCHANGED <<batch, config, trajectory, is_recording, is_paused, current_time, accuracy,
                   signal_strength, last_sampled_position, last_sample_time, args, pc,
                   attempt, last_update_time, returned, raised, events, calls, ticks>>

\* gps.set_position(p)
PersonSetPosition ==
    /\ PersonCalled
    /\ \E p \in PersonPositions : position' = p
    /\ UNCHANGED <<task, result>>

\* inspection_task.move_to_next_target(), while a next target remains
PersonNextTarget ==
    /\ PersonCalled
    /\ MoveReturns(polygon, target_index)
    /\ target_index' = target_index + 1
    /\ current_edge' = CurrentEdge(polygon, target_index + 1)
    /\ UNCHANGED <<position, result>>

\* Person.move(get_next_target(), 1): the candidate of the movement strategy
\* and the position returned
PersonCallMove ==
    /\ PersonCalled
    /\ \E c \in StrategyMove(config, position, GetNextTarget(polygon, target_index)) :
         \E q \in (IF NeedsCourseCorrection(config, polygon, c)
                    THEN CorrectCourse(config, polygon, c) ELSE {c}) :
            result' = [op |-> "move", candidate |-> c, value |-> q]
    /\ UNCHANGED <<position, task>>

NextPerson ==
    \/ PersonSetPosition
    \/ PersonNextTarget
    \/ PersonCallMove

SpecPerson == InitPerson /\ [][NextPerson]_vars

---------------------------------------------------------------------------
(* The batch simulator: _process_polygon over the polygons of a feature class *)

MaxRetries == 2

BatchParams ==
    { [DefaultSimulationParams EXCEPT !.max_retries = n,
                                      !.area_tolerance_min = t[1],
                                      !.area_tolerance_max = t[2]] :
        n \in 0..MaxRetries, t \in {<<95, 100>>, <<90, 105>>} }

\* what one attempt of _generate_trajectory and of arcpy.Polygon can give: no
\* trajectory, too few points, a RuntimeError of the polygon, or an area ratio
Generations ==
    {[points |-> n, error |-> FALSE, area_ratio |-> 0] : n \in {0, 2}}
        \cup {[points |-> 3, error |-> TRUE, area_ratio |-> 0]}
        \cup {[points |-> 3, error |-> FALSE, area_ratio |-> r] : r \in {90, 95, 105}}

InitProcess ==
    /\ config = BaseConfig
    /\ polygon = Square4
    /\ target_index = 0
    /\ current_edge = CurrentEdge(polygon, 0)
    /\ trajectory = <<>>
    /\ is_recording = FALSE
    /\ is_paused = FALSE
    /\ current_time = 0
    /\ position = <<0, 0>>
    /\ accuracy = config.initial_accuracy
    /\ signal_strength \in config.initial_strengths
    /\ last_sampled_position = <<0, 0>>
    /\ last_sample_time = 0
    /\ pc = "idle"
    /\ start_time = 0
    /\ start_position = <<0, 0>>
    /\ attempt = 0
    /\ last_update_time = 0
    /\ returned = <<>>
    /\ raised = "none"
    /\ events = <<>>
    /\ calls = 0
    /\ ticks = 0
    /\ ops = 0
    /\ result = NoCall
    /\ simulation_params \in BatchParams
    /\ person = DefaultPerson
    /\ rows = <<>>
    /\ log = <<>>

\* log.write(...) during the given attempt of the current polygon
Line(kind, generated) ==
    [call |-> calls, attempt |-> attempt, line |-> kind, points |-> generated.points,
     area_ratio |-> generated.area_ratio]

InRange(params, area_ratio) ==
    params.area_tolerance_min <= area_ratio /\ area_ratio <= params.area_tolerance_max

\* _process_polygon is called with the next row of the search cursor
ProcessPolygon ==
    /\ pc \in {"idle", "done"}
    /\ calls < MaxCalls
    /\ calls' = calls + 1
    /\ attempt' = 0
    /\ pc' = "for"
    /\ UNCHANGED <<config, device, task, args, last_update_time, returned, raised, events,
                   ticks, ops, result, batch>>

\* the loop of _process_polygon that goes on after a row was inserted
ProcessAttemptWithoutBreak ==
    /\ pc = "for"
    /\ attempt < simulation_params.max_retries
    /\ \E generated \in Generations :
         IF generated.points >= 3
         THEN IF generated.error
              THEN /\ log' = Append(log, Line("warning_polygon", generated))
                   /\ UNCHANGED rows
              ELSE IF InRange(simulation_params, generated.area_ratio)
                   THEN /\ log' = Append(log, Line("attempt", generated))
                        /\ rows' = Append(rows, [call |-> calls, attempt |-> attempt])
                   ELSE /\ log' = log \o << Line("attempt", generated),
                                            Line("not_in_range", generated) >>
                        /\ UNCHANGED rows
         ELSE /\ log' = Append(log, Line("warning_invalid", generated))
              /\ UNCHANGED rows
    /\ attempt' = attempt + 1
    /\ UNCHANGED pc
    /\ UNCHANGED <<config, device, task, args, last_update_time, returned, raised, events,
                   calls, ticks, ops, result, simulation_params, person>>

\* one iteration of 'for attempt in range(max_retries)'
ProcessAttempt ==
    /\ pc = "for"
    /\ attempt < simulation_params.max_retries
    /\ \E generated \in Generations :
         IF generated.points >= 3
         THEN IF generated.error
              THEN /\ log' = Append(log, Line("warning_polygon", generated))
                   /\ attempt' = attempt + 1
                   /\ UNCHANGED <<rows, pc>>
              ELSE IF InRange(simulation_params, generated.area_ratio)
                   THEN /\ log' = Append(log, Line("attempt", generated))
                        /\ rows' = Append(rows, [call |-> calls, attempt |-> attempt])
                        /\ pc' = "done"
                        /\ UNCHANGED attempt
                   ELSE /\ log' = log \o << Line("attempt", generated),
                                            Line("not_in_range", generated) >>
                        /\ attempt' = attempt + 1
                        /\ UNCHANGED <<rows, pc>>
         ELSE /\ log' = Append(log, Line("warning_invalid", generated))
              /\ attempt' = attempt + 1
              /\ UNCHANGED <<rows, pc>>
    /\ UNCHANGED <<config, device, task, args, last_update_time, returned, raised, events,
                   calls, ticks, ops, result, simulation_params, person>>

\* the else clause of the loop: range(max_retries) is exhausted
ProcessExhausted ==
    /\ pc = "for"
    /\ attempt >= simulation_params.max_retries
    /\ log' = Append(log, [call |-> calls, attempt |-> attempt, line |-> "error_max_retries",
                           points |-> 0, area_ratio |-> 0])
    /\ pc' = "done"
    /\ UNCHANGED <<config, device, task, args, attempt, last_update_time, returned, raised,
                   events, calls, ticks, ops, result, simulation_params, person, rows>>

NextProcess ==
    \/ ProcessPolygon
    \/ ProcessAttempt
    \/ ProcessExhausted

SpecProcess == InitProcess /\ [][NextProcess]_vars

---------------------------------------------------------------------------
(* The batch simulator's Person: the stamina model, driven directly and by *)
(* the walking loop of _generate_trajectory                                *)

\* 1000 * math.log(speed - min_speed + 1, max_speed - min_speed + 1) for the
\* speeds 0.0, 0.1, ... max_speed of the two persons, to the nearest integer
SpeedFactor(p, speed) ==
    LET table ==
            IF p.number = 0
            THEN << -1008, -767, -581, -428, -299, -187, -88, 0, 80, 153, 220, 282, 340,
                    394, 444, 492, 538, 581, 621, 660, 698, 733, 767, 800, 832, 862, 892,
                    920, 948, 974, 1000 >>
            ELSE << -1000, -737, -515, -322, -152, 0, 138, 263, 379, 485, 585, 678, 766,
                    848, 926, 1000 >>
    IN  table[speed + 1]

\* Person.get_current_speed, cut to a tenth
GetCurrentSpeed(p) ==
    p.min_speed + ((p.max_speed - p.min_speed) * p.current_stamina) \div p.max_stamina

\* Person.consume_stamina(distance, speed): distance in metres
ConsumeStamina(p, distance, speed) ==
    LET stamina_consumed ==
            (distance * p.stamina_consumption_base[1] * (1000 + SpeedFactor(p, speed)))
                \div p.stamina_consumption_base[2]
    IN  [p EXCEPT !.current_stamina = Max(0, @ - stamina_consumed)]

\* Person.recover_stamina(time_seconds, is_walking): the time in milliseconds
RecoverStamina(p, time, is_walking) ==
    LET recovery_rate ==
            IF is_walking
            THEN << p.stamina_recovery_rate[1] * p.walking_recovery_factor[1],
                    p.stamina_recovery_rate[2] * p.walking_recovery_factor[2] >>
            ELSE p.stamina_recovery_rate
        stamina_recovered == (time * recovery_rate[1]) \div recovery_rate[2]
    IN  [p EXCEPT !.current_stamina = Min(p.max_stamina, @ + stamina_recovered)]

\* Person.needs_rest
NeedsRest(p) == p.current_stamina < p.min_stamina_to_walk

\* a float divided by a float: exact when the dividend is 0 or the divisor a
\* power of two, otherwise the quotient or one of its neighbours
Quotient(x, rate) ==
    LET q == (x * rate[2]) \div rate[1]
    IN  IF x = 0 \/ (rate[1] = 1 /\ rate[2] \in {1, 2, 4, 8})
        THEN {q}
        ELSE {q - 1, q, q + 1}

\* Person.rest_until_ready: the persons it can leave
RestUntilReady(p) ==
    { RecoverStamina(p, time_to_rest, FALSE) :
        time_to_rest \in Quotient(p.min_stamina_to_walk - p.current_stamina,
                                  p.stamina_recovery_rate) }

StaminaDistances == {300, 1000}

StaminaSpeeds(p) == {0, p.min_speed, p.max_speed}

\* seconds
StaminaTimes == {43, 1000}

InitStamina ==
    /\ config = BaseConfig
    /\ polygon = Square4
    /\ target_index = 0
    /\ current_edge = CurrentEdge(polygon, 0)
    /\ trajectory = <<>>
    /\ is_recording = FALSE
    /\ is_paused = FALSE
    /\ current_time = 0
    /\ position = <<0, 0>>
    /\ accuracy = config.initial_accuracy
    /\ signal_strength \in config.initial_strengths
    /\ last_sampled_position = <<0, 0>>
    /\ last_sample_time = 0
    /\ pc = "idle"
    /\ start_time = 0
    /\ start_position = <<0, 0>>
    /\ attempt = 0
    /\ last_update_time = 0
    /\ returned = <<>>
    /\ raised = "none"
    /\ events = <<>>
    /\ calls = 0
    /\ ticks = 0
    /\ ops = 0
    /\ result = NoCall
    /\ simulation_params = DefaultSimulationParams
    /\ person \in {DefaultPerson, ConfigPerson1}
    /\ rows = <<>>
    /\ log = <<>>

StaminaCalled ==
    /\ ops < MaxOps
    /\ ops' = ops + 1
    /\ UNCHANGED <<config, device, simulator, events, ticks, simulation_params, rows, log>>

\* person.consume_stamina(distance, speed)
CallConsumeStamina ==
    /\ StaminaCalled
    /\ \E distance \in StaminaDistances, speed \in StaminaSpeeds(person) :
         /\ person' = ConsumeStamina(person, distance, speed)
         /\ result' = [op |-> "consume_stamina", distance |-> distance, speed |-> speed]

\* person.recover_stamina(time_seconds, is_walking)
CallRecoverStamina ==
    /\ StaminaCalled
    /\ \E time_seconds \in StaminaTimes, is_walking \in BOOLEAN :
         /\ person' = RecoverStamina(person, 1000 * time_seconds, is_walking)
         /\ result' = [op |-> "recover_stamina", time_seconds |-> time_seconds,
                       is_walking |-> is_walking]

\* person.rest_until_ready()
CallRestUntilReady ==
    /\ StaminaCalled
    /\ person' \in RestUntilReady(person)
    /\ result' = [op |-> "rest_until_ready"]

\* one iteration of 'while remaining_distance > 0': a rest, or a step of
\* step_distance metres at the current speed
WalkStep ==
    /\ StaminaCalled
    /\ IF NeedsRest(person)
       THEN /\ person' \in RestUntilReady(person)
            /\ result' = [op |-> "walk", rested |-> TRUE,
                          after_rest |-> (result.op = "walk" /\ result.rested)]
       ELSE /\ \E step_distance \in {1, simulation_params.sample_distance} :
                 LET speed == GetCurrentSpeed(person)
                     time_delta == (step_distance * 10000) \div speed
                 IN  person' = RecoverStamina(ConsumeStamina(person, step_distance, speed),
                                              time_delta, TRUE)
            /\ result' = [op |-> "walk", rested |-> FALSE, after_rest |-> FALSE]

NextStamina ==
    \/ CallConsumeStamina
    \/ CallRecoverStamina
    \/ CallRestUntilReady
    \/ WalkStep

SpecStamina == InitStamina /\ [][NextStamina]_vars

---------------------------------------------------------------------------
(* Properties of simulate *)

LastEvent == events[Len(events)]

Returned(kind) == pc = "done" /\ Len(events) > 0 /\ LastEvent.kind = kind

Count(kind) == Cardinality({i \in 1..Len(events) : events[i].kind = kind})

\* the fidelity criterion evaluated on a sequence of samples
Fidelity(samples) ==
    /\ Len(samples) >= 3
    /\ Area2(Positions(samples)) * config.area_threshold[2]
         >= config.area_threshold[1] * Area2(polygon)

\* C1: a trajectory returned after simulation_success has at least 3 samples
\* and the area of the polygon through its positions, divided by the area of
\* the original polygon, is at least the configured threshold
C1_AreaFidelity ==
    Returned("simulation_success") =>
        /\ Len(returned) >= 3
        /\ Area2(Positions(returned)) * config.area_threshold[2]
             >= config.area_threshold[1] * Area2(polygon)

\* a success that follows a rejected attempt
C1_Witness ==
    /\ Returned("simulation_success")
    /\ Count("simulation_retry") = 1
    /\ Len(returned) >= 3

\* the attempt that produced the returned trajectory
ProducingAttempt ==
    IF LastEvent.kind = "simulation_success" THEN LastEvent.attempt ELSE config.max_attempts

\* C2: the returned trajectory holds only samples recorded in the attempt
\* that produced it: none of an earlier attempt or of an earlier call
C2_OnlyOwnAttempt ==
    pc = "done" =>
        \A i \in 1..Len(returned) :
            /\ returned[i].origin.call = calls
            /\ returned[i].origin.attempt = ProducingAttempt

\* all attempts of the call were made and rejected
AllAttemptsFailed == Returned("simulation_failure") /\ config.max_attempts >= 1

\* C3: when no attempt is valid, a call emits maxAttempts attempt events,
\* maxAttempts - 1 retry events, one failure event and no success event
C3_RetriesOneLess ==
    AllAttemptsFailed =>
        /\ Count("simulation_attempt") = config.max_attempts
        /\ Count("simulation_retry") = config.max_attempts - 1
        /\ Count("simulation_failure") = 1
        /\ Count("simulation_success") = 0

Terminal == {"simulation_success", "simulation_failure"}

\* the buffer as it was when attempt j of the current call was validated
BufferAt(j) ==
    LET Before(smp) == smp.origin.call < calls \/ smp.origin.attempt <= j
    IN  SelectSeq(trajectory, Before)

\* C4: a call that returns has emitted exactly one terminal event, as its last
\* event: success{k} where k is the first valid attempt and the last attempt
\* started, or failure{maxAttempts} after maxAttempts invalid attempts; in
\* both cases the buffer is returned
C4_TerminalEvent ==
    pc = "done" =>
        /\ Len(events) > 0
        /\ LastEvent.kind \in Terminal
        /\ \A i \in 1..(Len(events) - 1) : events[i].kind \notin Terminal
        /\ returned = trajectory
        /\ LastEvent.kind = "simulation_success" =>
              /\ Count("simulation_attempt") = LastEvent.attempt
              /\ Fidelity(BufferAt(LastEvent.attempt))
              /\ \A j \in 1..(LastEvent.attempt - 1) : ~Fidelity(BufferAt(j))
        /\ LastEvent.kind = "simulation_failure" =>
              /\ LastEvent.max_attempts = config.max_attempts
              /\ Count("simulation_attempt") = Max(0, config.max_attempts)
              /\ \A j \in 1..config.max_attempts : ~Fidelity(BufferAt(j))

\* a success at the second attempt
C4_Witness ==
    /\ Returned("simulation_success")
    /\ LastEvent.attempt = 2
    /\ ~Fidelity(BufferAt(1))

\* events[i..] is accepted from the state q of an attempt numbered k
RECURSIVE EventOrder(_, _, _)
EventOrder(i, q, k) ==
    IF i > Len(events) THEN TRUE
    ELSE LET e == events[i]
         IN  CASE q = "between" ->
                     \/ /\ e.kind = "simulation_attempt"
                        /\ e.attempt = k + 1
                        /\ e.attempt <= config.max_attempts
                        /\ EventOrder(i + 1, "attempt", k + 1)
                     \/ /\ e.kind = "simulation_failure"
                        /\ EventOrder(i + 1, "end", k)
               [] q = "attempt" ->
                     e.kind = "start_recording" /\ EventOrder(i + 1, "started", k)
               [] q = "started" ->
                     /\ e.kind = "update"
                     /\ e.data.origin = Origin(calls, k, "start_recording")
                     /\ EventOrder(i + 1, "ticking", k)
               [] q = "ticking" ->
                     /\ e.kind = "update"
                     /\ \/ /\ e.data.origin = Origin(calls, k, "update")
                           /\ EventOrder(i + 1, "ticking", k)
                        \/ /\ e.data.origin = Origin(calls, k, "stop_recording")
                           /\ EventOrder(i + 1, "final", k)
               [] q = "final" ->
                     e.kind = "stop_recording" /\ EventOrder(i + 1, "stopped", k)
               [] q = "stopped" ->
                     \/ /\ e.kind = "simulation_success"
                        /\ e.attempt = k
                        /\ EventOrder(i + 1, "end", k)
                     \/ /\ e.kind = "simulation_retry"
                        /\ e.attempt = k
                        /\ EventOrder(i + 1, "between", k)
               [] OTHER -> FALSE

\* C5: the attempt events of a call are numbered 1, 2, ..., k <= maxAttempts
\* and the events of every attempt come in the order simulation_attempt,
\* start_recording, update of the initial sample, updates of the ticks, update
\* of the final sample, stop_recording, then one of success and retry
C5_EventOrder == EventOrder(1, "between", 0)

\* a call with two complete attempts and sampled ticks
C5_Witness ==
    /\ pc = "done"
    /\ Count("simulation_attempt") = 2
    /\ Count("stop_recording") = 2
    /\ \E i \in 1..Len(events) :
          events[i].kind = "update" /\ events[i].data.origin.by = "update"

\* C7: the samples returned by simulate are ordered by time
C7_TimeOrdered ==
    pc = "done" =>
        \A i \in 1..(Len(returned) - 1) : returned[i].timestamp <= returned[i + 1].timestamp

\* the samples appended by update
TickSamples ==
    LET ByUpdate(smp) == smp.origin.by = "update"
    IN  SelectSeq(trajectory, ByUpdate)

\* C8 as claimed: with the distance strategy no two consecutive samples of
\* the buffer, the initial and final ones included, are closer than the
\* sampling distance
C8_AllSamplesApart ==
    config.strategy = "distance" =>
        \A i \in 1..(Len(trajectory) - 1) :
            DistSq(trajectory[i].position, trajectory[i + 1].position)
                >= config.sampling_distance * config.sampling_distance

\* C8 amended: with the distance strategy no two consecutive samples
\* appended by update during simulate are closer than the sampling
\* distance (the samples of start_recording and stop_recording are taken
\* unconditionally)
C8_TickSamplesApart ==
    config.strategy = "distance" =>
        \A i \in 1..(Len(TickSamples) - 1) :
            DistSq(TickSamples[i].position, TickSamples[i + 1].position)
                >= config.sampling_distance * config.sampling_distance

\* two samples appended by update under a sampling distance of 2
C8_Witness ==
    /\ config.strategy = "distance"
    /\ config.sampling_distance = 2
    /\ Len(TickSamples) >= 2

\* C9 as claimed: with the time strategy any two consecutive samples of the
\* buffer are at least the sampling interval apart in time
C9_AllSamplesSpaced ==
    config.strategy = "time" =>
        \A i \in 1..(Len(trajectory) - 1) :
            trajectory[i + 1].timestamp - trajectory[i].timestamp
                >= config.sampling_interval

\* C9 amended: with the time strategy any two consecutive samples appended
\* by update during simulate are at least the sampling interval apart in
\* time, for any start time (the samples of start_recording and
\* stop_recording are taken unconditionally)
C9_TickSamplesSpaced ==
    config.strategy = "time" =>
        \A i \in 1..(Len(TickSamples) - 1) :
            TickSamples[i + 1].timestamp - TickSamples[i].timestamp
                >= config.sampling_interval

\* samples appended by update in a call started at a time other than 0
C9_Witness ==
    /\ config.strategy = "time"
    /\ start_time > 0
    /\ Len(TickSamples) >= 2
    /\ TickSamples[Len(TickSamples)].origin.call = calls

\* the square of the length of the shortest edge of a ring
ShortestEdgeSq(ring) ==
    LET lengths == {DistSq(ring[i], ring[i + 1]) : i \in 1..(Len(ring) - 1)}
    IN  CHOOSE m \in lengths : \A l \in lengths : m <= l

\* a ring of at least 3 non-degenerate vertices, a tolerance > 0 and a step
\* smaller than the shortest edge
SmallSteps ==
    /\ Len(polygon) >= 4
    /\ Area2(polygon) > 0
    /\ config.tolerance > 0
    /\ config.speed_range[2] * config.speed_range[2] < 100 * ShortestEdgeSq(polygon)

\* the samples appended by update in the current attempt
AttemptTickSamples ==
    LET Current(smp) == smp.origin = Origin(calls, attempt + 1, "update")
    IN  SelectSeq(trajectory, Current)

\* C13: with small steps the tick loop of an attempt ends within a bounded
\* number of ticks.  The loop goes on as a function of the reported position
\* and of the target index, so it can only end within a bound if no position
\* comes back while the target is the same: stated for the first target
C13_TickLoopEnds ==
    (SmallSteps /\ pc = "tick" /\ target_index = 0) =>
        \A i, j \in 1..Len(AttemptTickSamples) :
            i < j => AttemptTickSamples[i].position # AttemptTickSamples[j].position

\* fewer than 3 vertices (the ring repeats its first vertex), or no area
Degenerate(ring) == Len(ring) < 4 \/ Area2(ring) = 0

\* C14: simulate on a degenerate polygon fails with an InvalidInputError
\* before any simulation_attempt event and before anything is started
C14_DegenerateFailsFast ==
    (calls > 0 /\ Degenerate(polygon)) =>
        /\ Count("simulation_attempt") = 0
        /\ pc \in {"loop", "raised"}
        /\ pc = "raised" => raised = "InvalidInputError"

\* C20: the validation of a recorded trajectory never ends simulate with an
\* exception: a trajectory without a usable area is an invalid attempt
C20_ValidationNeverAborts == ~(pc = "raised" /\ raised = "ZeroDivisionError")

\* hybrid sampling with distance 10 and interval 5 on a walk of 1 unit per
\* tick and 1 time unit per tick (the first edge of Triangle5)
ScenarioD ==
    /\ config.strategy = "hybrid"
    /\ config.sampling_distance = 10
    /\ config.sampling_interval = 5
    /\ polygon = Triangle5
    /\ pc = "tick"

Observed ==
    [trajectory |-> trajectory, events |-> events, current_time |-> current_time,
     position |-> position, accuracy |-> accuracy, signal_strength |-> signal_strength,
     last_sampled_position |-> last_sampled_position,
     last_sample_time |-> last_sample_time, target_index |-> target_index]

\* the outcome of one iteration computed from the state before it and the
\* values drawn in it: where Person.move lands, the strength change, the
\* accuracy variation and the position error
TickOutcome(new_position, strength_change, accuracy_variation, error) ==
    LET time == current_time + TimeUnitFactor(config.time_unit)
        strength == UpdateSignalStrength(signal_strength, strength_change,
                                         config.min_signal_strength)
        acc == UpdateAccuracy(strength, accuracy_variation,
                              config.min_accuracy, config.max_accuracy)
        pos == Add(new_position, error)
        decision == ShouldSample(config, pos, last_sampled_position, time, last_sample_time)
        data == GetData(pos, time, acc, strength, Origin(calls, attempt + 1, "update"))
    IN  [trajectory |-> IF decision.sample
                        THEN RecordData(trajectory, is_recording, is_paused, data)
                        ELSE trajectory,
         events |-> IF decision.sample THEN Append(events, UpdateEvent(data)) ELSE events,
         current_time |-> time,
         position |-> pos,
         accuracy |-> acc,
         signal_strength |-> strength,
         last_sampled_position |-> IF decision.sample THEN pos ELSE last_sampled_position,
         last_sample_time |-> decision.last_time,
         target_index |-> IF IsOnCurrentEdge(config, polygon, target_index, current_edge,
                                             pos, config.tolerance)
                          THEN target_index + 1 ELSE target_index]

AttemptSamples(n) ==
    {i \in 1..Len(trajectory) :
        trajectory[i].origin.call = calls /\ trajectory[i].origin.attempt = n}

\* C29: when an attempt starts the device time is the start time, the device
\* position is the start position and the task is at index 0; the first
\* sample recorded in each attempt has the start time as its timestamp and
\* the start position as its position.
C29_AttemptStartsAtStart ==
    /\ pc = "start" =>
          /\ current_time = start_time
          /\ position = start_position
          /\ target_index = 0
    /\ \A n \in 1..(attempt + 1) :
          \A i \in AttemptSamples(n) :
             (\A j \in AttemptSamples(n) : i <= j) =>
                 /\ trajectory[i].timestamp = start_time
                 /\ trajectory[i].position = start_position

\* a second attempt started recording after the first one had moved the device
C29_Witness ==
    /\ attempt = 1
    /\ pc = "tick"
    /\ start_time = 10
    /\ AttemptSamples(2) # {}
    /\ \E i \in AttemptSamples(1) : trajectory[i].position # start_position

\* C30: an iteration advances the position against which the next
\* iteration's offset is computed by exactly the offset, that is to where
\* Person.move landed: the jitter or fix-jump displacement of the iteration
\* is not part of it.
C30_OffsetOnly ==
    [][(ticks' = ticks + 1) =>
          position' \in PersonMove(config, polygon, position,
                                   GetNextTarget(polygon, target_index))]_vars

\* C35: every attempt starts from the same sampling state: when an attempt
\* is about to start recording, the last-sampled position and the time
\* strategy's last sample time are those of a new device, as at the start
\* of the first attempt.
C35_SameSamplingState ==
    pc = "start" =>
        /\ last_sampled_position = <<0, 0>>
        /\ last_sample_time = 0

\* C36: every iteration of the main loop starts with the index below N - 1,
\* where get_next_target returns a vertex, and the index never exceeds
\* N - 1 during simulate.
C36_IndexInRange ==
    [][/\ (ticks' = ticks + 1) =>
            /\ target_index < Len(polygon) - 1
            /\ target_index + 2 \in DOMAIN polygon
       /\ pc' \in {"start", "tick", "validate"} => target_index' <= Len(polygon) - 1]_vars

\* the loop was left with the index at N - 1 after iterations at every
\* smaller index
C36_Witness ==
    /\ pc = "done"
    /\ target_index = Len(polygon) - 1
    /\ ticks >= Len(polygon) - 1
    /\ polygon = Triangle

\* C38: with max_attempts <= 0 simulate runs no attempt: the only event is
\* one simulation_failure, the device is as it was made, and the buffer of
\* the device is returned.
C38_NoAttempt ==
    config.max_attempts <= 0 =>
        /\ \A i \in 1..Len(events) : events[i].kind = "simulation_failure"
        /\ pc = "done" => /\ events = <<FailureEvent(config.max_attempts)>>
                          /\ returned = trajectory
        /\ pc \in {"idle", "loop", "done"}
        /\ trajectory = <<>>
        /\ ~is_recording /\ ~is_paused
        /\ current_time = 0 /\ position = <<0, 0>>
        /\ accuracy = config.initial_accuracy
        /\ signal_strength \in config.initial_strengths
        /\ last_sampled_position = <<0, 0>> /\ last_sample_time = 0
        /\ ticks = 0

\* a second call returned under a negative max_attempts
C38_Witness ==
    /\ config.max_attempts < 0
    /\ calls = 2
    /\ pc = "done"
    /\ start_time = 10

---------------------------------------------------------------------------
(* Properties of the device *)

\* C6 as claimed: right after start_recording the buffer holds exactly one
\* sample, the one notified after the start_recording event
C6_StartClears ==
    (Len(events) >= 2 /\ events[Len(events) - 1].kind = "start_recording")
        => trajectory = <<LastEvent.data>>

\* C10: after every update accuracy is within [min_accuracy, max_accuracy]
\* and signal strength within [min_signal_strength, 1.0]
C10_Bounds ==
    ticks > 0 =>
        /\ config.min_accuracy <= accuracy
        /\ accuracy <= config.max_accuracy
        /\ config.min_signal_strength <= signal_strength
        /\ signal_strength <= 100

\* an update that left both values on a bound, from an initial accuracy
\* outside the bounds
C10_Witness ==
    /\ ticks > 0
    /\ config.initial_accuracy > config.max_accuracy
    /\ accuracy = config.max_accuracy
    /\ signal_strength = config.min_signal_strength

\* C11: in every device state, the one before the first update included,
\* accuracy is within [min_accuracy, max_accuracy] and signal strength within
\* [0, 1], and so is the accuracy of every recorded sample
C11_AlwaysInRange ==
    /\ config.min_accuracy <= accuracy /\ accuracy <= config.max_accuracy
    /\ 0 <= signal_strength /\ signal_strength <= 100
    /\ \A i \in 1..Len(trajectory) :
          /\ config.min_accuracy <= trajectory[i].accuracy
          /\ trajectory[i].accuracy <= config.max_accuracy

\* a step made by update, and whether it notified a sample
UpdateStep == ticks' = ticks + 1

Notified == events' # events

\* a step made by resume_recording on a paused device
ResumeStep == events' = Append(events, Event("resume_recording"))

\* C16: while the device is paused an update adds no sample and leaves it
\* recording and paused; resume_recording leaves it recording, not paused,
\* with the same buffer, and the samples of later updates go to that buffer
C16_PausedNoSample ==
    [][ /\ (is_recording /\ is_paused /\ UpdateStep) =>
              (trajectory' = trajectory /\ is_recording' /\ is_paused')
        /\ (is_recording /\ is_paused /\ ResumeStep) =>
              (trajectory' = trajectory /\ is_recording' /\ ~is_paused')
        /\ (is_recording /\ ~is_paused /\ UpdateStep /\ Notified) =>
              trajectory' = Append(trajectory, events'[Len(events')].data)
      ]_vars

\* an update on a paused device decided to sample and recorded nothing
C16_Witness ==
    /\ is_recording /\ is_paused /\ ticks > 0
    /\ LastEvent.kind = "update"
    /\ LastEvent.data.origin.by = "update"
    /\ Len(trajectory) = 1

\* a step made by stop_recording
StopStep ==
    /\ Len(events') = Len(events) + 2
    /\ events'[Len(events')].kind = "stop_recording"

\* C17 as claimed: stop_recording on a recording device appends one final
\* sample, then emits stop_recording, and only then leaves the recording
\* state: the observer of the event still finds the device recording
C17_StopEventBeforeStopped ==
    [][ (is_recording /\ ~is_paused /\ StopStep) =>
            /\ trajectory' = Append(trajectory, events'[Len(events') - 1].data)
            /\ events'[Len(events') - 1].kind = "update"
            /\ events'[Len(events')].is_recording
            /\ ~is_recording' /\ ~is_paused'
      ]_vars

\* C17 amended: stop_recording on a recording device appends one final
\* sample and notifies it, then leaves the recording state (not recording,
\* not paused), and then emits stop_recording: the observer of the event
\* finds the device stopped
C17_StopSampleThenEvent ==
    [][ (is_recording /\ ~is_paused /\ StopStep) =>
            /\ trajectory' = Append(trajectory, events'[Len(events') - 1].data)
            /\ events'[Len(events') - 1].kind = "update"
            /\ ~events'[Len(events')].is_recording
            /\ ~is_recording' /\ ~is_paused'
      ]_vars

\* a recording stopped after an update
C17_Witness ==
    /\ Len(events) > 0 /\ LastEvent.kind = "stop_recording"
    /\ ~is_recording /\ ticks > 0
    /\ Len(trajectory) >= 2
    /\ trajectory[Len(trajectory)].origin.by = "stop_recording"

\* C18: the hybrid strategy samples when its distance strategy or its time
\* strategy does, and evaluates both on every call: the time strategy
\* commits its watermark whenever its interval has elapsed
C18_HybridIndependent ==
    [][ (config.strategy = "hybrid" /\ UpdateStep) =>
            /\ Notified <=>
                  \/ DistanceShouldSample(position', last_sampled_position,
                                          config.sampling_distance)
                  \/ TimeShouldSample(current_time', last_sample_time,
                                      config.sampling_interval)
            /\ TimeShouldSample(current_time', last_sample_time, config.sampling_interval)
                  => last_sample_time' = current_time'
      ]_vars

\* a step of start_recording
StartStep ==
    /\ Len(events') = Len(events) + 2
    /\ events'[Len(events) + 1] = Event("start_recording")

\* the buffer after the step is the buffer before it with one more sample
Appended ==
    /\ Len(trajectory') = Len(trajectory) + 1
    /\ SubSeq(trajectory', 1, Len(trajectory)) = trajectory

\* C22: the buffer is append-only: every device operation leaves it as it
\* was or appends one sample, and it appends only while recording and not
\* paused (start_recording, which sets that state first, included); in the
\* idle, paused and stopped states update, pause_recording, resume_recording,
\* set_time and set_position leave it unchanged.
C22_AppendOnly ==
    [][/\ trajectory' = trajectory \/ Appended
       /\ Appended => StartStep \/ (is_recording /\ ~is_paused)
       /\ (~(is_recording /\ ~is_paused) /\ ~StartStep) => trajectory' = trajectory]_vars

\* a stopped device holding the samples of start_recording, update and
\* stop_recording
C22_Witness ==
    /\ ~is_recording
    /\ Len(trajectory) >= 3
    /\ \E i \in 1..Len(trajectory) : trajectory[i].origin.by = "update"
    /\ trajectory[Len(trajectory)].origin.by = "stop_recording"

\* the sampling decision taken in a step of update
Decision ==
    ShouldSample(config, position', last_sampled_position, current_time',
                 last_sample_time).sample

\* C23: in update a positive sampling decision appends exactly one sample,
\* sets the last-sampled-position watermark to the reported position and
\* notifies exactly one data update equal to the appended sample; a negative
\* decision does none of the three.
C23_SampleWatermarkNotification ==
    [][UpdateStep =>
          IF Decision
          THEN /\ Appended
               /\ last_sampled_position' = position'
               /\ events' = Append(events, UpdateEvent(trajectory'[Len(trajectory')]))
          ELSE UNCHANGED <<trajectory, last_sampled_position, events>>]_vars

\* the time of the last positive decision of update, 0 before the first
LastPositiveTime(evs) ==
    LET S == {i \in 1..Len(evs) : evs[i].kind = "update" /\ evs[i].data.origin.by = "update"}
    IN  IF S = {} THEN 0
        ELSE evs[CHOOSE i \in S : \A j \in S : j <= i].data.timestamp

\* C27: the time strategy decides positively exactly when the current time
\* minus the time of its last positive decision is at least the interval; a
\* positive decision sets the watermark to the current time, a negative one
\* leaves it unchanged.
C27_TimeStrategy ==
    [][(UpdateStep /\ config.strategy = "time") =>
          LET positive == current_time' - LastPositiveTime(events) >= config.sampling_interval
          IN  /\ last_sample_time = LastPositiveTime(events)
              /\ Notified <=> positive
              /\ last_sample_time' = IF positive THEN current_time' ELSE last_sample_time]_vars

\* a time strategy after a positive decision followed by a negative one
C27_Witness ==
    /\ config.strategy = "time"
    /\ ticks >= 2
    /\ last_sample_time > 0
    /\ current_time = last_sample_time + 1

\* C28: should_sample leaves the device as it is under every strategy: after
\* a negative decision the buffer, the flags and the last-sampled position
\* are those before the update, and no strategy changes the flags.  The
\* distance strategy changes nothing at all and is positive exactly when
\* the reported position is at least the configured distance away from the
\* last-sampled position.
C28_ShouldSamplePure ==
    [][UpdateStep =>
          /\ UNCHANGED <<is_recording, is_paused>>
          /\ ~Notified => UNCHANGED <<trajectory, last_sampled_position>>
          /\ config.strategy = "distance" =>
                /\ UNCHANGED last_sample_time
                /\ Notified <=> DistSq(position', last_sampled_position)
                                  >= config.sampling_distance * config.sampling_distance]_vars

\* a distance strategy after a negative decision
C28_Witness ==
    /\ config.strategy = "distance"
    /\ ticks >= 2
    /\ Cardinality({i \in 1..Len(events) : events[i].kind = "update"
                                           /\ events[i].data.origin.by = "update"}) < ticks

\* what a step of update added to the position besides the offset
Displacement == Sub(position', Add(position, CHOOSE offset \in UpdateOffsets : TRUE))

\* the signal rose by more than the improvement threshold in the step
Improved == signal_strength' - signal_strength > SIGNAL_IMPROVEMENT_THRESHOLD

\* C31: update displaces the reported position by at most the accuracy when
\* the signal strength rose by more than the improvement threshold (0.2) in
\* this update, and by at most a tenth of the accuracy otherwise; the
\* accuracy is the one recomputed in the same update.
C31_JumpOrJitter ==
    [][UpdateStep =>
          DistSq(Displacement, <<0, 0>>) * (IF Improved THEN 1000000 ELSE 100000000)
              <= accuracy' * accuracy']_vars

\* the first update of a device that started below the minimum strength
\* displaced the position by a fix jump of one unit
C31_Witness ==
    /\ ticks = 1
    /\ ops = 1
    /\ config.initial_strengths = {10}
    /\ signal_strength = 40
    /\ accuracy = 1000
    /\ DistSq(position, <<1, 0>>) = 1

\* the signal keys of the default configuration
DefaultSignal ==
    /\ \A s \in config.initial_strengths : 80 <= s /\ s <= 100
    /\ config.min_signal_strength = 40

\* C37: with the default signal keys (initial strength in [0.8, 1.0],
\* minimum 0.4) the signal changes by at most 0.05 in an update, never by
\* more than the improvement threshold: every update applies jitter.
C37_DefaultNeverJumps ==
    [][(UpdateStep /\ DefaultSignal) =>
          /\ Abs(signal_strength' - signal_strength) <= 5
          /\ ~Improved
          /\ DistSq(Displacement, <<0, 0>>) * 100000000 <= accuracy' * accuracy']_vars

\* a default device whose signal went down from 0.8 and up again
C37_Witness ==
    /\ DefaultSignal
    /\ config.initial_strengths = {80}
    /\ ticks >= 2
    /\ signal_strength = 80

\* C34: a paused device is recording, whatever calls were made;
\* pause_recording on a device that does not record and resume_recording on
\* a device that is not paused change nothing and notify nothing.
C34_Lifecycle ==
    [][/\ is_paused' => is_recording'
       /\ (~is_recording /\ DevicePauseRecording) => UNCHANGED <<device, events>>
       /\ (~is_paused /\ DeviceResumeRecording) => UNCHANGED <<device, events>>]_vars

\* calls were made on an idle device that is still as it was made: they
\* were pause_recording or resume_recording
C34_Witness ==
    /\ ops >= 2
    /\ ~is_recording /\ ~is_paused
    /\ events = <<>>
    /\ trajectory = <<>>
    /\ current_time = 0
    /\ position = <<0, 0>>
    /\ ticks = 0

---------------------------------------------------------------------------
(* Properties of the inspection task *)

\* C12: the target index of a task never decreases, whatever the sequence of
\* get_next_target, is_on_current_edge, move_to_next_target and is_complete
\* calls
C12_IndexMonotonic == [][target_index' >= target_index]_vars

\* a task moved past its last edge and asked again
C12_Witness ==
    /\ target_index = Len(polygon) - 1
    /\ result.op = "is_complete"
    /\ result.value

\* C15: on the final edge of the ring, the one that ends on the closing
\* vertex, is_on_current_edge compares with the closing distance, and on
\* every other edge with the tolerance it was given
C15_ClosingDistanceOnFinalEdge ==
    (result.op = "is_on_current_edge" /\ target_index <= Len(polygon) - 2) =>
        result.value = Within(result.point, current_edge[2],
                              IF target_index = Len(polygon) - 2
                              THEN ClosingDistance(config, result.tolerance)
                              ELSE result.tolerance)

\* C24: get_next_target returns the vertex at index + 1 while index < N - 1
\* and none (written <<>>) from N - 1 on; is_complete is true exactly from
\* N - 1 on; so get_next_target returns none exactly when is_complete holds.
\* N is the number of coordinates of the ring; the sequence is indexed from 1.
C24_NextTargetAndComplete ==
    /\ result.op = "get_next_target" =>
          /\ target_index < Len(polygon) - 1 => result.value = polygon[target_index + 2]
          /\ target_index >= Len(polygon) - 1 => result.value = <<>>
          /\ (result.value = <<>>) <=> (target_index >= Len(polygon) - 1)
    /\ result.op = "is_complete" =>
          (result.value <=> (target_index >= Len(polygon) - 1))

\* get_next_target returned none on a task at its last index
C24_Witness ==
    /\ result.op = "get_next_target"
    /\ result.value = <<>>
    /\ target_index = Len(polygon) - 1

\* C25: move_to_next_target adds exactly one to the index and returns true
\* exactly when the new index is below N - 1, the current edge then starting
\* at the new index; from N - 1 on every call returns false and no call
\* takes the task out of the terminal state.
C25_MoveToNextTarget ==
    [][/\ result'.op = "move_to_next_target" =>
            /\ target_index' = target_index + 1
            /\ result'.value <=> (target_index' < Len(polygon) - 1)
            /\ result'.value =>
                   current_edge' = <<polygon[target_index' + 1], polygon[target_index' + 2]>>
            /\ target_index >= Len(polygon) - 1 => ~result'.value
       /\ target_index >= Len(polygon) - 1 => target_index' >= Len(polygon) - 1]_vars

\* move_to_next_target called again on a complete task
C25_Witness ==
    /\ result.op = "move_to_next_target"
    /\ ~result.value
    /\ target_index > Len(polygon) - 1

---------------------------------------------------------------------------
(* Properties of the person *)

\* the grid points of the ring: on a ring with axis-parallel sides the
\* boundary point nearest to a grid point is one of them
BoundaryPoints(ring) ==
    {b \in PersonPositions :
        \E i \in 1..(Len(ring) - 1) : OnSegment(b, ring[i], ring[i + 1])}

\* the square of the distance from p to the boundary
BoundaryDistSq(ring, p) ==
    LET B == BoundaryPoints(ring)
    IN  DistSq(p, CHOOSE b \in B : \A o \in B : DistSq(p, b) <= DistSq(p, o))

\* C32: Person.move corrects the candidate exactly when its distance to the
\* boundary is strictly above the correction threshold; the corrected
\* position lies on the segment from the candidate to a nearest boundary
\* point, at (1 - factor) times the original distance from that point and
\* from the boundary; with factor 0 it is the candidate, with factor 1 it is
\* on the boundary.  For factors in [0, 1].
C32_CourseCorrection ==
    result.op = "move" =>
        LET c == result.candidate
            q == result.value
            f == config.correction_factor
            d2 == BoundaryDistSq(polygon, c)
        IN  IF d2 > config.correction_threshold * config.correction_threshold
            THEN /\ \E n \in BoundaryPoints(polygon) :
                       /\ DistSq(c, n) = d2
                       /\ OnSegment(q, c, n)
                       /\ DistSq(q, n) * f[2] * f[2] = (f[2] - f[1]) * (f[2] - f[1]) * d2
                 /\ BoundaryDistSq(polygon, q) * f[2] * f[2]
                        = (f[2] - f[1]) * (f[2] - f[1]) * d2
                 /\ f[1] = 0 => q = c
                 /\ f[1] = f[2] => q \in BoundaryPoints(polygon)
            ELSE q = c

\* a candidate 2 units inside the square was pulled half way to the boundary
C32_Witness ==
    /\ result.op = "move"
    /\ result.candidate = <<2, 2>>
    /\ config.correction_factor = <<1, 2>>
    /\ result.value # result.candidate

---------------------------------------------------------------------------
(* Properties of the batch simulator *)

\* the lines logged for the k-th polygon
LinesOf(k) == SelectSeq(log, LAMBDA entry : entry.call = k)

\* the attempts made for the k-th polygon: each writes a line at least
AttemptsOf(k) ==
    {LinesOf(k)[i].attempt : i \in {j \in 1..Len(LinesOf(k)) :
                                       LinesOf(k)[j].line # "error_max_retries"}}

\* the attempts whose trajectory has three points at least and an area ratio
\* within the tolerances
AcceptedOf(k) ==
    {LinesOf(k)[i].attempt : i \in {j \in 1..Len(LinesOf(k)) :
          /\ LinesOf(k)[j].line = "attempt"
          /\ LinesOf(k)[j].points >= 3
          /\ InRange(simulation_params, LinesOf(k)[j].area_ratio)}}

RowsOf(k) == SelectSeq(rows, LAMBDA row : row.call = k)

ErrorsOf(k) == SelectSeq(LinesOf(k), LAMBDA entry : entry.line = "error_max_retries")

C39_StaminaInRange ==
    /\ 0 <= person.current_stamina
    /\ person.current_stamina <= person.max_stamina
    /\ result.op = "rest_until_ready" => ~NeedsRest(person)
    /\ (result.op = "walk" /\ result.rested) => ~NeedsRest(person)
    /\ result.op = "walk" => ~result.after_rest

====
